---------------------------- MODULE Spec2Model ----------------------------
(***************************************************************************)
(* Player locomotion (src/src/player.rs): the Timer, the grounded tracker, *)
(* the jump curve, the gravity ramp, the horizontal input and the commit   *)
(* of the accumulated velocity to the kinematic character controller, run  *)
(* once per frame in the order PlayerPlugin::build declares.               *)
(*                                                                         *)
(* Numbers.  The source computes in f32; the model computes in exact       *)
(* fixed point:                                                            *)
(*   time      (dt, Timer.elapsed_time)      1 unit = 1 ms                 *)
(*   velocity  (CharacterVelocity, translations) 1 unit = 0.000001         *)
(*   fraction  (Jump::speed_fraction)        1 unit = 0.00001              *)
(*   input     (Actions.player_movement)     1 unit = 0.1                  *)
(* so every product and sum of the source is an exact integer here, and    *)
(* only the exponential of speed_fraction is tabulated.  f32::MAX, the     *)
(* Timer's ceiling and its "unset" value, is the largest time of the       *)
(* model, F32_MAX; every comparison the source makes against it is kept.   *)
(***************************************************************************)
EXTENDS Integers, Sequences, FiniteSets

VARIABLES
    time_since_last_grounded,   \* Grounded.time_since_last_grounded.elapsed_time
    time_since_start,           \* Jump.time_since_start.elapsed_time
    velocity,                   \* CharacterVelocity.0, <<x, y>>
    translation,                \* KinematicCharacterController.translation
    output,                     \* KinematicCharacterControllerOutput, or None
    dt,                         \* Time::delta_seconds() of the current frame
    player_movement,            \* Actions.player_movement of the current frame
    ran,                        \* the systems run so far in this frame, in order
    tick,                       \* frames completed
    history,                    \* what earlier frames and the frame's start were
    timer,                      \* a Timer driven directly by start/update calls
    timer_ops,                  \* the calls made on it, latest last
    probe,                      \* two sampled times and what a curve returned
    world,                      \* the entities spawn commands were issued for
    gltf_loaded,                \* whether Assets<Gltf> holds scenes.character
    panicked,                   \* a spawner has panicked
    spawn_log,                  \* the objects whose spawner was called, in order
    editor_state,               \* the SceneEditorState resource
    toggle_editor,              \* Actions.toggle_editor of the current frame
    actions_frozen,             \* the ActionsFrozen resource exists
    commands,                   \* Commands queued in this frame, not yet applied
    spawn_events,               \* Events<SpawnEvent> of the editor
    last_event_count,           \* relay_spawn_requests' EventReader cursor
    spawn_sent,                 \* every editor SpawnEvent sent, in order
    spawn_requests,             \* the crate::spawning::SpawnEvent sent, in order
    parent_changes,             \* the ParentChangeEvent sent, in order
    save_requests,              \* the SaveRequest sent, in order
    load_requests,              \* the LoadRequest sent, in order
    ui,                         \* what the user did in the editor window last
    editor_ran,                 \* the editor systems run so far in this frame
    editor_frame                \* editor frames completed

playerVars == <<time_since_last_grounded, time_since_start, velocity,
                translation, output, dt, player_movement, ran, tick,
                history>>
timerVars == <<timer, timer_ops>>
probeVars == <<probe>>
spawnVars == <<world, gltf_loaded, panicked, spawn_log>>
editorVars == <<editor_state, toggle_editor, actions_frozen, commands,
                spawn_events, last_event_count, spawn_sent, spawn_requests,
                parent_changes, save_requests, load_requests, ui, editor_ran,
                editor_frame>>
vars == <<playerVars, timerVars, probeVars, spawnVars, editorVars>>

(* Option<T>: None, or Some(v) *)
None == <<>>
Some(v) == <<v>>
Unwrap(o) == o[1]

----------------------------------------------------------------------------
(* Bounds of the model *)

MaxTicks == 5          \* frames per behaviour
MaxTimerOps == 4       \* start/update calls per behaviour of the Timer alone
NSamples == 120        \* sampled times of the curves: 0, 50, 100, ... ms
MaxSpawns == 4         \* spawner calls per behaviour of the spawners alone
MaxEditorFrames == 3   \* frames of the editor systems

(* The frame deltas the engine may report, in ms: a zero delta, a short
   frame of 0.1 s and a long one. *)
DtSet == {0, 100, 1900}

(* Deltas for the Timer alone: also one that meets the ceiling in one step
   and one beyond it. *)
TimerDtSet == DtSet \cup {50, 3000, 6000, 7000}

(* Actions.player_movement: no input, or <<x, y>> in tenths. *)
MovementSet ==
    {None} \cup {Some(m) : m \in {<<10, 0>>, <<-10, 0>>, <<0, 10>>,
                                  <<10, 10>>, <<0, 1>>}}

----------------------------------------------------------------------------
(* Timer *)

F32_MAX == 6000        \* f32::MAX, the ceiling of elapsed_time
SaturationMargin == 100 \* the 0.1 of Timer::update

Timer_start == 0

Timer_default_started == Timer_start

Timer_default == F32_MAX

Timer_update_unsaturated(elapsed_time, d) == elapsed_time + d

Timer_update(elapsed_time, d) ==
    IF elapsed_time < F32_MAX - d - SaturationMargin
    THEN elapsed_time + d
    ELSE F32_MAX

----------------------------------------------------------------------------
(* Jump::speed_fraction *)

(* 1 / (1 + exp(6 (t - 1/2))) in units of 0.00001, at t = 0, 50, 100, ... ms,
   rounded to nearest; from 2550 ms on it rounds to 0, as does the f32 value
   at the ceiling, where exp overflows to +inf. *)
SigmoidTable ==
    << 95257, 93703, 91683, 89090, 85815, 81757, 76852, 71095, 64566, 57444,
       50000, 42556, 35434, 28905, 23148, 18243, 14185, 10910, 8317, 6297,
       4743, 3557, 2660, 1984, 1477, 1099, 816, 606, 450, 333,
       247, 183, 136, 101, 75, 55, 41, 30, 22, 17,
       12, 9, 7, 5, 4, 3, 2, 2, 1, 1, 1 >>

suggestion(t) ==
    IF t \div 50 + 1 <= Len(SigmoidTable)
    THEN SigmoidTable[t \div 50 + 1]
    ELSE 0

SuggestionFloor == 100   \* the 0.001 of speed_fraction

speed_fraction_unfloored(t) == suggestion(t)

speed_fraction(t) ==
    IF suggestion(t) > SuggestionFloor THEN suggestion(t) ELSE 0

----------------------------------------------------------------------------
(* apply_gravity *)

g == -9810             \* -9.81 per second of airborne time, per ms here
GravityCapFactor == 5
GravityFloorFactor == 1

Max(a, b) == IF a >= b THEN a ELSE b
Min(a, b) == IF a <= b THEN a ELSE b
Abs(a) == IF a < 0 THEN -a ELSE a

max_gravity == g * 1000 * GravityCapFactor
min_gravity == g * 1000 * GravityFloorFactor

gravity_unclamped(t) == g * t

gravity(t) == Min(Max(g * t, max_gravity), min_gravity)

----------------------------------------------------------------------------
(* handle_jump and handle_horizontal_movement *)

y_speed == 1100
x_speed == 450
JumpAxisThreshold == 1     \* movement.y > 0.1
GroundedEpsilonInv == 100  \* 0.00001 s is 1/100 ms

jump_requested(movement) ==
    IF movement = None THEN FALSE
    ELSE Unwrap(movement)[2] > JumpAxisThreshold

is_grounded_always(t) == TRUE

(* time_since_last_grounded < 0.00001 *)
is_grounded(t) == t * GroundedEpsilonInv < 1

jump_term_unscaled(fraction, d) == fraction * (y_speed \div 100)

(* speed_fraction * y_speed * dt, in velocity units *)
jump_term(fraction, d) == fraction * (y_speed \div 100) * d

(* movement.x * x_speed * dt, in velocity units; 0 without input *)
horizontal_term(movement, d) ==
    IF movement = None THEN 0
    ELSE Unwrap(movement)[1] * x_speed * 100 * d

----------------------------------------------------------------------------
(* apply_velocity: the wall clamp *)

epsilon == 100             \* the 0.0001 of apply_velocity

wall_clamp_swapped(out, v) ==
    IF out # None /\ Abs(Unwrap(out).effective_translation_x) < epsilon
                  /\ Abs(v[1]) > epsilon
    THEN IF Unwrap(out).desired_translation_x < 0 THEN <<Min(v[1], 0), v[2]>>
         ELSE IF Unwrap(out).desired_translation_x > 0 THEN <<Max(v[1], 0), v[2]>>
         ELSE v
    ELSE v

wall_clamp_whatever_moved(out, v) ==
    IF out # None /\ Abs(v[1]) > epsilon
    THEN IF Unwrap(out).desired_translation_x < 0 THEN <<Max(v[1], 0), v[2]>>
         ELSE IF Unwrap(out).desired_translation_x > 0 THEN <<Min(v[1], 0), v[2]>>
         ELSE v
    ELSE v

wall_clamp(out, v) ==
    IF out # None /\ Abs(Unwrap(out).effective_translation_x) < epsilon
                  /\ Abs(v[1]) > epsilon
    THEN IF Unwrap(out).desired_translation_x < 0 THEN <<Max(v[1], 0), v[2]>>
         ELSE IF Unwrap(out).desired_translation_x > 0 THEN <<Min(v[1], 0), v[2]>>
         ELSE v
    ELSE v

velocity_kept(v) == v

velocity_reset_x(v) == <<0, v[2]>>

(* velocity.0 = default() *)
velocity_reset(v) == <<0, 0>>

----------------------------------------------------------------------------
(* PlayerPlugin::build: the systems of on_update(Playing) and their order *)

Systems == {"update_grounded", "handle_jump", "apply_gravity",
            "handle_horizontal_movement", "apply_velocity"}

Producers == {"handle_jump", "apply_gravity", "handle_horizontal_movement"}

OrderingNoJumpBefore ==
    {<<"update_grounded", p>> : p \in Producers}
        \cup {<<p, "apply_velocity">> : p \in Producers \ {"handle_jump"}}

(* <<a, b>>: a runs before b (the .after and .before of build) *)
Ordering ==
    {<<"update_grounded", p>> : p \in Producers}
        \cup {<<p, "apply_velocity">> : p \in Producers}

HasRun(s) == \E i \in 1..Len(ran) : ran[i] = s

CanRun(s) ==
    /\ ~HasRun(s)
    /\ \A o \in Ordering : o[2] = s => HasRun(o[1])

Last == IF ran = <<>> THEN "none" ELSE ran[Len(ran)]

----------------------------------------------------------------------------
(* The state after spawn_player: default timers, velocity and controller. *)

Sign(x) == IF x > 0 THEN 1 ELSE IF x < 0 THEN -1 ELSE 0

(* the direction of the horizontal input: -1, 0 or 1 *)
pressed(movement) == IF movement = None THEN 0 ELSE Sign(Unwrap(movement)[1])

(* What the frames so far were, kept for stating properties:
   start_grounded, start_jump: the two timers when the current frame began;
   wall_dir, wall_ticks: the direction the player has kept pressing in while
       every move was blocked, and for how many frames (2 standing for 2 or
       more), counted from a frame whose non-zero move was blocked;
   jump_on_grounded_output: an earlier frame had jump requested while its
       controller output reported grounded;
   jump_on_grounded_timer: an earlier frame had jump requested while its
       grounded timer was below epsilon. *)
history_at_spawn ==
    [start_grounded |-> Timer_default, start_jump |-> Timer_default,
     wall_dir |-> 0, wall_ticks |-> 0,
     jump_on_grounded_output |-> FALSE, jump_on_grounded_timer |-> FALSE]

InitPlayer ==
    /\ history = history_at_spawn
    /\ time_since_last_grounded = Timer_default
    /\ time_since_start = Timer_default
    /\ velocity = <<0, 0>>
    /\ translation = None
    /\ output = None
    /\ dt \in DtSet
    /\ player_movement \in MovementSet
    /\ ran = <<>>
    /\ tick = 0

IdlePlayer ==
    /\ history = history_at_spawn
    /\ time_since_last_grounded = Timer_default
    /\ time_since_start = Timer_default
    /\ velocity = <<0, 0>>
    /\ translation = None
    /\ output = None
    /\ dt = 0
    /\ player_movement = None
    /\ ran = <<>>
    /\ tick = 0

IdleTimer == timer = Timer_default /\ timer_ops = <<>>

IdleProbe == probe = [fn |-> "none", lo |-> 0, hi |-> 0, at_lo |-> 0, at_hi |-> 0]

update_grounded_never_restarts ==
    /\ CanRun("update_grounded")
    /\ time_since_last_grounded' =
          IF output = None THEN time_since_last_grounded
          ELSE Timer_update(time_since_last_grounded, dt)
    /\ ran' = Append(ran, "update_grounded")
    /\ UNCHANGED <<time_since_start, velocity, translation, output, dt,
                   player_movement, tick, history,
                   timerVars, probeVars, spawnVars, editorVars>>

update_grounded ==
    /\ CanRun("update_grounded")
    /\ time_since_last_grounded' =
          IF output = None THEN time_since_last_grounded
          ELSE IF Unwrap(output).grounded THEN Timer_start
          ELSE Timer_update(time_since_last_grounded, dt)
    /\ ran' = Append(ran, "update_grounded")
    /\ UNCHANGED <<time_since_start, velocity, translation, output, dt,
                   player_movement, tick, history,
                   timerVars, probeVars, spawnVars, editorVars>>

apply_gravity ==
    /\ CanRun("apply_gravity")
    /\ velocity' = <<velocity[1],
                     velocity[2] + gravity(time_since_last_grounded)>>
    /\ ran' = Append(ran, "apply_gravity")
    /\ UNCHANGED <<time_since_last_grounded, time_since_start, translation,
                   output, dt, player_movement, tick, history,
                   timerVars, probeVars, spawnVars, editorVars>>

handle_jump_sets_velocity ==
    /\ CanRun("handle_jump")
    /\ time_since_start' =
          IF jump_requested(player_movement)
             /\ is_grounded(time_since_last_grounded)
          THEN Timer_start
          ELSE Timer_update(time_since_start, dt)
    /\ velocity' = <<velocity[1],
                     jump_term(speed_fraction(time_since_start'), dt)>>
    /\ ran' = Append(ran, "handle_jump")
    /\ UNCHANGED <<time_since_last_grounded, translation, output, dt,
                   player_movement, tick, history,
                   timerVars, probeVars, spawnVars, editorVars>>

handle_jump ==
    /\ CanRun("handle_jump")
    /\ time_since_start' =
          IF jump_requested(player_movement)
             /\ is_grounded(time_since_last_grounded)
          THEN Timer_start
          ELSE Timer_update(time_since_start, dt)
    /\ velocity' = <<velocity[1],
                     velocity[2] + jump_term(speed_fraction(time_since_start'), dt)>>
    /\ ran' = Append(ran, "handle_jump")
    /\ UNCHANGED <<time_since_last_grounded, translation, output, dt,
                   player_movement, tick, history,
                   timerVars, probeVars, spawnVars, editorVars>>

handle_horizontal_movement ==
    /\ CanRun("handle_horizontal_movement")
    /\ velocity' = <<velocity[1] + horizontal_term(player_movement, dt),
                     velocity[2]>>
    /\ ran' = Append(ran, "handle_horizontal_movement")
    /\ UNCHANGED <<time_since_last_grounded, time_since_start, translation,
                   output, dt, player_movement, tick, history,
                   timerVars, probeVars, spawnVars, editorVars>>

apply_velocity ==
    /\ CanRun("apply_velocity")
    /\ translation' = Some(wall_clamp(output, velocity))
    /\ velocity' = velocity_reset(wall_clamp(output, velocity))
    /\ ran' = Append(ran, "apply_velocity")
    /\ UNCHANGED <<time_since_last_grounded, time_since_start, output, dt,
                   player_movement, tick, history,
                   timerVars, probeVars, spawnVars, editorVars>>

(* Between two frames: the physics step turns the translation handed to the
   controller into its output (the move is blocked horizontally or not, the
   body touches ground or not), and the next frame's delta and input arrive. *)
EndFrame ==
    /\ HasRun("apply_velocity")
    /\ tick < MaxTicks
    /\ tick' = tick + 1
    /\ \E grounded \in BOOLEAN, blocked \in BOOLEAN :
          output' = Some([grounded |-> grounded,
                          desired_translation_x |-> Unwrap(translation)[1],
                          effective_translation_x |->
                              IF blocked THEN 0 ELSE Unwrap(translation)[1]])
    /\ history' =
          LET handed == Unwrap(translation)[1]
              stopped == Unwrap(output').effective_translation_x = 0
              dir == pressed(player_movement)
              contact == dir # 0 /\ stopped /\ handed # 0
              still == /\ dir # 0 /\ stopped
                       /\ history.wall_ticks > 0 /\ dir = history.wall_dir
          IN [start_grounded |-> time_since_last_grounded,
              start_jump |-> time_since_start,
              wall_dir |-> IF still \/ contact THEN dir ELSE 0,
              wall_ticks |-> IF still THEN Min(history.wall_ticks + 1, 2)
                             ELSE IF contact THEN 1 ELSE 0,
              jump_on_grounded_output |->
                  \/ history.jump_on_grounded_output
                  \/ /\ output # None
                     /\ Unwrap(output).grounded
                     /\ jump_requested(player_movement),
              jump_on_grounded_timer |->
                  \/ history.jump_on_grounded_timer
                  \/ /\ is_grounded(time_since_last_grounded)
                     /\ jump_requested(player_movement)]
    /\ dt' \in DtSet
    /\ player_movement' \in MovementSet
    /\ ran' = <<>>
    /\ UNCHANGED <<time_since_last_grounded, time_since_start, velocity,
                   translation,
                   timerVars, probeVars, spawnVars, editorVars>>

(* Nothing spawned yet; the character scene not yet loaded. *)
IdleSpawn ==
    /\ world = <<>>
    /\ gltf_loaded = FALSE
    /\ panicked = FALSE
    /\ spawn_log = <<>>

(* SceneEditorState::default() *)
SceneEditorState_default ==
    [active |-> FALSE, save_name |-> "demo", spawn_name |-> "",
     parent_name |-> "", parenting_name |-> "", parenting_parent_name |-> ""]

(* Events<T>::default(): both buffers empty, no event counted *)
Events_default == [events_a |-> <<>>, events_b |-> <<>>, event_count |-> 0]

(* the user did nothing in the editor window *)
NoInput == [typed |-> None, click |-> [button |-> "none", item |-> ""]]

IdleEditor ==
    /\ editor_state = SceneEditorState_default
    /\ toggle_editor = FALSE
    /\ actions_frozen = FALSE
    /\ commands = <<>>
    /\ spawn_events = Events_default
    /\ last_event_count = 0
    /\ spawn_sent = <<>>
    /\ spawn_requests = <<>>
    /\ parent_changes = <<>>
    /\ save_requests = <<>>
    /\ load_requests = <<>>
    /\ ui = NoInput
    /\ editor_ran = {}
    /\ editor_frame = 0

Init == InitPlayer /\ IdleTimer /\ IdleProbe /\ IdleSpawn /\ IdleEditor

Next ==
    \/ update_grounded
    \/ apply_gravity
    \/ handle_jump
    \/ handle_horizontal_movement
    \/ apply_velocity
    \/ EndFrame

Spec == Init /\ [][Next]_vars

----------------------------------------------------------------------------
(* The Timer alone: any sequence of start() and update(dt) calls on a
   default Timer. *)

Timer_start_call ==
    /\ Len(timer_ops) < MaxTimerOps
    /\ timer' = Timer_start
    /\ timer_ops' = Append(timer_ops,
                           [op |-> "start", d |-> 0, before |-> timer,
                            after |-> timer'])
    /\ UNCHANGED <<playerVars, probeVars, spawnVars, editorVars>>

Timer_update_call ==
    /\ Len(timer_ops) < MaxTimerOps
    /\ \E d \in TimerDtSet :
          /\ timer' = Timer_update(timer, d)
          /\ timer_ops' = Append(timer_ops,
                                 [op |-> "update", d |-> d, before |-> timer,
                                  after |-> timer'])
    /\ UNCHANGED <<playerVars, probeVars, spawnVars, editorVars>>

InitTimer == IdlePlayer /\ IdleTimer /\ IdleProbe /\ IdleSpawn /\ IdleEditor

NextTimer ==
    \/ Timer_start_call
    \/ Timer_update_call

SpecTimer == InitTimer /\ [][NextTimer]_vars

----------------------------------------------------------------------------
(* The curves alone: the gravity of apply_gravity and Jump::speed_fraction,
   each applied to two sampled timer values lo <= hi. *)

TimeSamples ==
    {t \in {k * 50 : k \in 0..NSamples} : t <= F32_MAX} \cup {F32_MAX}

InitCurve ==
    /\ IdlePlayer
    /\ IdleTimer
    /\ probe \in {[fn |-> "none", lo |-> a, hi |-> b, at_lo |-> 0, at_hi |-> 0] :
                     a \in TimeSamples, b \in TimeSamples}
    /\ probe.lo <= probe.hi
    /\ IdleSpawn
    /\ IdleEditor

gravity_probe ==
    /\ probe.fn = "none"
    /\ probe' = [probe EXCEPT !.fn = "apply_gravity",
                              !.at_lo = gravity(probe.lo),
                              !.at_hi = gravity(probe.hi)]
    /\ UNCHANGED <<playerVars, timerVars, spawnVars, editorVars>>

speed_fraction_probe ==
    /\ probe.fn = "none"
    /\ probe' = [probe EXCEPT !.fn = "speed_fraction",
                              !.at_lo = speed_fraction(probe.lo),
                              !.at_hi = speed_fraction(probe.hi)]
    /\ UNCHANGED <<playerVars, timerVars, spawnVars, editorVars>>

NextCurve ==
    \/ gravity_probe
    \/ speed_fraction_probe

SpecCurve == InitCurve /\ [][NextCurve]_vars

----------------------------------------------------------------------------
(* The object spawners (src/src/level_instanciation/spawning/objects): each
   spawn call issues entity-creation commands; world lists the entities in
   the order of the commands, an entity's id being its position, parent 0
   meaning a root. *)

npc_root == [name |-> "NPC", parent |-> 0, kind |-> "Follower"]

npc_children_without_model(root) ==
    << [name |-> "NPC Dialog Collider", parent |-> root,
        kind |-> "DialogTarget"] >>

(* the with_children closure of NpcSpawner::spawn *)
npc_children(root) ==
    << [name |-> "NPC Dialog Collider", parent |-> root,
        kind |-> "DialogTarget"],
       [name |-> "NPC Model", parent |-> root, kind |-> "Model"] >>

npc_without_scene_root_first(w) == Append(w, npc_root)

(* gltf.get(..) is None: unwrap_or_else panics before any command *)
npc_without_scene(w) == w

NpcSpawner_spawn ==
    /\ ~panicked
    /\ Len(spawn_log) < MaxSpawns
    /\ spawn_log' = Append(spawn_log, "Npc")
    /\ IF gltf_loaded
       THEN /\ world' = Append(world, npc_root) \o npc_children(Len(world) + 1)
            /\ panicked' = FALSE
       ELSE /\ world' = npc_without_scene(world)
            /\ panicked' = TRUE
    /\ UNCHANGED <<gltf_loaded, playerVars, timerVars, probeVars, editorVars>>

OrbSpawner_spawn ==
    /\ ~panicked
    /\ Len(spawn_log) < MaxSpawns
    /\ spawn_log' = Append(spawn_log, "Orb")
    /\ world' = world \o
          << [name |-> "Orb", parent |-> 0, kind |-> "MaterialMesh"],
             [name |-> "", parent |-> Len(world) + 1, kind |-> "PointLight"] >>
    /\ UNCHANGED <<gltf_loaded, panicked, playerVars, timerVars, probeVars,
                   editorVars>>

PointLightSpawner_spawn ==
    /\ ~panicked
    /\ Len(spawn_log) < MaxSpawns
    /\ spawn_log' = Append(spawn_log, "PointLight")
    /\ world' = Append(world,
                       [name |-> "Light", parent |-> 0, kind |-> "PointLight"])
    /\ UNCHANGED <<gltf_loaded, panicked, playerVars, timerVars, probeVars,
                   editorVars>>

(* asset loading, outside the spawners: the character scene becomes
   available *)
character_scene_loaded ==
    /\ ~panicked
    /\ ~gltf_loaded
    /\ gltf_loaded' = TRUE
    /\ UNCHANGED <<world, panicked, spawn_log, playerVars, timerVars,
                   probeVars, editorVars>>

InitSpawn == IdlePlayer /\ IdleTimer /\ IdleProbe /\ IdleSpawn /\ IdleEditor

NextSpawn ==
    \/ NpcSpawner_spawn
    \/ OrbSpawner_spawn
    \/ PointLightSpawner_spawn
    \/ character_scene_loaded

SpecSpawn == InitSpawn /\ [][NextSpawn]_vars

----------------------------------------------------------------------------
(* The scene editor (src/src/scene_editor.rs): handle_toggle, show_editor and
   relay_spawn_requests run once per frame, in no declared order. *)

Strings == {"", "a", "b"}
GameObjects == {"Grass", "Npc"}
TextFields == {"parenting_name", "parenting_parent_name", "spawn_name",
               "parent_name"}

(* what the user may do in the window within one frame: nothing, type a
   text into one field, or click one button *)
TypedSet == {Some(<<f, str>>) : f \in TextFields, str \in Strings}
ClickSet == {[button |-> b, item |-> ""] : b \in {"Save", "Load", "Set parent"}}
            \cup {[button |-> "Spawn", item |-> o] : o \in GameObjects}
UiSet == {NoInput}
         \cup {[typed |-> t, click |-> NoInput.click] : t \in TypedSet}
         \cup {[typed |-> None, click |-> c] : c \in ClickSet}

(* ui.text_edit_singleline(&mut editor_state.<field>) *)
text_edit(state, typed) ==
    IF typed = None THEN state
    ELSE [state EXCEPT ![Unwrap(typed)[1]] = Unwrap(typed)[2]]

set_parent_enabled_when_filled(state) ==
    ~(state.parenting_name = "" \/ state.parenting_parent_name = "")

(* the condition of ui.add_enabled_ui around the Set parent button *)
set_parent_enabled(state) ==
    /\ ~(state.parenting_name = "" \/ state.parenting_parent_name = "")
    /\ state.parenting_name # state.parenting_parent_name

(* (!name.is_empty()).then(|| name.into()) *)
non_empty(str) == IF str = "" THEN None ELSE Some(str)

(* Events<T>::send *)
Events_send(events, e) ==
    [events EXCEPT
        !.events_b = Append(@, [event_id |-> events.event_count, event |-> e]),
        !.event_count = @ + 1]

(* Events<T>::update: swap the buffers, clear the new write buffer *)
Events_update(events) ==
    [events EXCEPT !.events_a = events.events_b, !.events_b = <<>>]

EventReader_iter_from_start(events, cursor) ==
    events.events_a \o events.events_b

(* EventReader<T>::iter: the events of both buffers not yet seen *)
EventReader_iter(events, cursor) ==
    SelectSeq(events.events_a \o events.events_b,
              LAMBDA i : i.event_id >= cursor)

(* the crate::spawning::SpawnEvent built by relay_spawn_requests *)
SpawnRequestEvent(object) ==
    [object |-> object.object, transform |-> "Transform::default",
     parent |-> object.parent, name |-> object.name]

EditorSystems == {"handle_toggle", "show_editor", "relay_spawn_requests"}

handle_toggle_never_removes ==
    /\ "handle_toggle" \notin editor_ran
    /\ editor_ran' = editor_ran \cup {"handle_toggle"}
    /\ IF ~toggle_editor
       THEN UNCHANGED <<editor_state, commands>>
       ELSE /\ editor_state' = [editor_state EXCEPT !.active = ~@]
            /\ commands' = Append(commands, "init_resource")
    /\ UNCHANGED <<toggle_editor, actions_frozen, spawn_events,
                   last_event_count, spawn_sent, spawn_requests,
                   parent_changes, save_requests, load_requests, ui,
                   editor_frame, playerVars, timerVars, probeVars, spawnVars>>

handle_toggle ==
    /\ "handle_toggle" \notin editor_ran
    /\ editor_ran' = editor_ran \cup {"handle_toggle"}
    /\ IF ~toggle_editor
       THEN UNCHANGED <<editor_state, commands>>
       ELSE /\ editor_state' = [editor_state EXCEPT !.active = ~@]
            /\ commands' = Append(commands,
                                  IF ~editor_state.active
                                  THEN "init_resource"
                                  ELSE "remove_resource")
    /\ UNCHANGED <<toggle_editor, actions_frozen, spawn_events,
                   last_event_count, spawn_sent, spawn_requests,
                   parent_changes, save_requests, load_requests, ui,
                   editor_frame, playerVars, timerVars, probeVars, spawnVars>>

show_editor ==
    /\ "show_editor" \notin editor_ran
    /\ editor_ran' = editor_ran \cup {"show_editor"}
    /\ IF ~editor_state.active
       THEN UNCHANGED <<editor_state, spawn_events, spawn_sent,
                        parent_changes, save_requests, load_requests, ui>>
       ELSE \E input \in UiSet :
              LET typed == input.typed
                  click == input.click
                  edited == text_edit(editor_state, typed)
                  set_parent == /\ click.button = "Set parent"
                                /\ set_parent_enabled(edited)
                  spawn == click.button = "Spawn"
                  event == [object |-> click.item,
                            name |-> non_empty(edited.spawn_name),
                            parent |-> non_empty(edited.parent_name)]
              IN /\ ui' = input
                 /\ save_requests' =
                        IF click.button = "Save"
                        THEN Append(save_requests,
                                    [filename |-> edited.save_name])
                        ELSE save_requests
                 /\ load_requests' =
                        IF click.button = "Load"
                        THEN Append(load_requests,
                                    [filename |-> edited.save_name])
                        ELSE load_requests
                 /\ parent_changes' =
                        IF set_parent
                        THEN Append(parent_changes,
                                    [name |-> edited.parenting_name,
                                     new_parent |->
                                         edited.parenting_parent_name])
                        ELSE parent_changes
                 /\ spawn_events' = IF spawn
                                    THEN Events_send(spawn_events, event)
                                    ELSE spawn_events
                 /\ spawn_sent' = IF spawn THEN Append(spawn_sent, event)
                                  ELSE spawn_sent
                 /\ editor_state' =
                        IF set_parent
                        THEN [edited EXCEPT !.parenting_name = "",
                                            !.parenting_parent_name = ""]
                        ELSE IF spawn
                        THEN [edited EXCEPT !.spawn_name = "",
                                            !.parent_name = ""]
                        ELSE edited
    /\ UNCHANGED <<toggle_editor, actions_frozen, commands, last_event_count,
                   spawn_requests, editor_frame, playerVars, timerVars,
                   probeVars, spawnVars>>

relay_spawn_requests ==
    /\ "relay_spawn_requests" \notin editor_ran
    /\ editor_ran' = editor_ran \cup {"relay_spawn_requests"}
    /\ LET unread == EventReader_iter(spawn_events, last_event_count)
       IN spawn_requests' = spawn_requests \o
              [i \in 1..Len(unread) |-> SpawnRequestEvent(unread[i].event)]
    /\ last_event_count' = spawn_events.event_count
    /\ UNCHANGED <<editor_state, toggle_editor, actions_frozen, commands,
                   spawn_events, spawn_sent, parent_changes, save_requests,
                   load_requests, ui, editor_frame, playerVars, timerVars,
                   probeVars, spawnVars>>

(* the end of the stage applies the queued commands; the next frame starts
   with Events::update_system and new Actions *)
EditorEndFrame ==
    /\ editor_ran = EditorSystems
    /\ editor_frame < MaxEditorFrames
    /\ editor_frame' = editor_frame + 1
    /\ editor_ran' = {}
    /\ actions_frozen' =
           IF commands = <<>> THEN actions_frozen
           ELSE commands[Len(commands)] = "init_resource"
    /\ commands' = <<>>
    /\ spawn_events' = Events_update(spawn_events)
    /\ toggle_editor' \in BOOLEAN
    /\ ui' = NoInput
    /\ UNCHANGED <<editor_state, last_event_count, spawn_sent, spawn_requests,
                   parent_changes, save_requests, load_requests, playerVars,
                   timerVars, probeVars, spawnVars>>

InitEditor ==
    /\ IdlePlayer /\ IdleTimer /\ IdleProbe /\ IdleSpawn
    /\ editor_state = SceneEditorState_default
    /\ toggle_editor \in BOOLEAN
    /\ actions_frozen = FALSE
    /\ commands = <<>>
    /\ spawn_events = Events_default
    /\ last_event_count = 0
    /\ spawn_sent = <<>>
    /\ spawn_requests = <<>>
    /\ parent_changes = <<>>
    /\ save_requests = <<>>
    /\ load_requests = <<>>
    /\ ui = NoInput
    /\ editor_ran = {}
    /\ editor_frame = 0

NextEditor ==
    \/ handle_toggle
    \/ show_editor
    \/ relay_spawn_requests
    \/ EditorEndFrame

SpecEditor == InitEditor /\ [][NextEditor]_vars

----------------------------------------------------------------------------
(* Properties *)

JumpRequestedNow ==
    player_movement # None /\ Unwrap(player_movement)[2] > 1

(* the grounded timer read in this frame is below 0.00001 s = 0.01 ms *)
GroundedNow == time_since_last_grounded * 100 < 1

(* C1: whatever start() and update(dt) calls (dt >= 0) are made on a default
   Timer, elapsed_time stays within 0..f32::MAX, no update lowers it, and
   the only call after which it is lower than before is start(), which
   leaves it at exactly 0. *)
C1_TimerBoundedAndMonotone ==
    /\ timer >= 0
    /\ timer <= 6000
    /\ \A i \in 1..Len(timer_ops) :
          /\ timer_ops[i].after <= 6000
          /\ timer_ops[i].op = "update" =>
                timer_ops[i].after >= timer_ops[i].before
          /\ timer_ops[i].op = "start" => timer_ops[i].after = 0
          /\ timer_ops[i].after < timer_ops[i].before =>
                timer_ops[i].op = "start"

(* a started Timer that an update takes from below the ceiling onto it *)
C1_Witness ==
    \E i, j \in 1..Len(timer_ops) :
        /\ j < i
        /\ timer_ops[j].op = "start"
        /\ timer_ops[i].op = "update"
        /\ timer_ops[i].before > 0
        /\ timer_ops[i].before < 6000
        /\ timer_ops[i].after = 6000
        /\ timer_ops[i].before + timer_ops[i].d # 6000

(* C2: handle_jump sets the jump timer to 0 exactly when jump is requested
   and the grounded timer it reads is below epsilon; in every other frame
   the jump timer does not go down: it is advanced by dt (or held at the
   ceiling), so a request made while airborne starts no jump. *)
C2_JumpRestartOnlyWhenGrounded ==
    [][ran' = Append(ran, "handle_jump") =>
          IF JumpRequestedNow /\ GroundedNow
          THEN time_since_start' = 0
          ELSE /\ time_since_start' >= time_since_start
               /\ time_since_start' \in {time_since_start + dt, 6000}
               /\ (time_since_start' = 0 => time_since_start = 0)]_vars

(* jump requested while airborne during a jump: the jump timer keeps running *)
C2_Witness ==
    /\ Last = "handle_jump"
    /\ JumpRequestedNow
    /\ ~GroundedNow
    /\ time_since_start > 0
    /\ time_since_start < 6000

(* C3, as claimed: after update_grounded the grounded timer is 0 if the
   output reports grounded, and otherwise it has strictly increased by
   exactly dt, or it is at the ceiling. *)
C3_StrictIncrease ==
    [][(ran' = Append(ran, "update_grounded") /\ output # None) =>
          IF Unwrap(output).grounded
          THEN time_since_last_grounded' = 0
          ELSE \/ time_since_last_grounded' = 6000
               \/ /\ time_since_last_grounded' = time_since_last_grounded + dt
                  /\ time_since_last_grounded' > time_since_last_grounded]_vars

(* C3, amended: after update_grounded the grounded timer is 0 if the output
   reports grounded; otherwise it has increased by exactly dt, which is a
   strict increase whenever dt > 0 and none when dt = 0, or, once within
   dt + 0.1 s of the ceiling, it is at the ceiling. *)
C3_IncreaseByDt ==
    [][(ran' = Append(ran, "update_grounded") /\ output # None) =>
          IF Unwrap(output).grounded
          THEN time_since_last_grounded' = 0
          ELSE \/ /\ time_since_last_grounded' = 6000
                  /\ time_since_last_grounded + dt + 100 >= 6000
               \/ /\ time_since_last_grounded' = time_since_last_grounded + dt
                  /\ time_since_last_grounded' < 6000
                  /\ (dt > 0 =>
                        time_since_last_grounded' > time_since_last_grounded)]_vars

(* at least the second airborne frame in a row: the timer holds more than
   this frame's dt and is still below the ceiling *)
C3_Witness ==
    /\ Last = "update_grounded"
    /\ output # None
    /\ ~Unwrap(output).grounded
    /\ dt > 0
    /\ time_since_last_grounded > dt
    /\ time_since_last_grounded < 6000

(* C4: right after apply_velocity the velocity is (0, 0). *)
C4_VelocityZeroAfterCommit ==
    Last = "apply_velocity" => velocity = <<0, 0>>

(* a commit with a controller output, in which the wall clamp fired and a
   non-zero vertical velocity was handed over *)
C4_Witness ==
    /\ Last = "apply_velocity"
    /\ output # None
    /\ horizontal_term(player_movement, dt) # 0
    /\ Unwrap(translation)[1] = 0
    /\ Unwrap(translation)[2] # 0
    /\ velocity = <<0, 0>>

(* C5: for sampled timer values lo <= hi (0 and the ceiling among them) the
   gravity term lies between 5 g and 1 g, g = -9.81, and its magnitude at
   hi is at least its magnitude at lo. *)
C5_GravityBandMonotone ==
    probe.fn = "apply_gravity" =>
        /\ probe.at_lo >= -49050000 /\ probe.at_lo <= -9810000
        /\ probe.at_hi >= -49050000 /\ probe.at_hi <= -9810000
        /\ -probe.at_lo <= -probe.at_hi

(* the floor at 0, the cap at the ceiling *)
C5_Witness ==
    /\ probe.fn = "apply_gravity"
    /\ probe.lo = 0
    /\ probe.hi = 6000
    /\ probe.at_lo = -9810000
    /\ probe.at_hi = -49050000

(* C6: in every frame update_grounded has run before any of apply_gravity,
   handle_jump and handle_horizontal_movement runs, and all three have run
   before apply_velocity runs. *)
C6_DeclaredOrder ==
    \A i \in 1..Len(ran) :
        /\ ran[i] \in {"apply_gravity", "handle_jump",
                       "handle_horizontal_movement"} =>
              \E j \in 1..(i - 1) : ran[j] = "update_grounded"
        /\ ran[i] = "apply_velocity" =>
              \A p \in {"apply_gravity", "handle_jump",
                        "handle_horizontal_movement"} :
                  \E j \in 1..(i - 1) : ran[j] = p

(* a complete frame in which the producers ran in another order than build
   lists them *)
C6_Witness ==
    /\ Len(ran) = 5
    /\ ran[2] = "handle_horizontal_movement"
    /\ ran[3] = "apply_gravity"
    /\ ran[4] = "handle_jump"
    /\ ran[5] = "apply_velocity"

(* this frame's contributions: horizontal input, gravity and jump *)
FrameVelocity ==
    <<horizontal_term(player_movement, dt),
      gravity(time_since_last_grounded)
          + jump_term(speed_fraction(time_since_start), dt)>>

(* C7: the translation apply_velocity hands to the controller is this
   frame's gravity, jump and horizontal contributions after the wall clamp,
   and nothing of an earlier frame's velocity. *)
C7_TranslationIsThisFrameOnly ==
    Last = "apply_velocity" =>
        translation = Some(wall_clamp(output, FrameVelocity))

(* a commit after an earlier frame handed over another, non-zero horizontal
   translation *)
C7_Witness ==
    /\ Last = "apply_velocity"
    /\ output # None
    /\ Unwrap(output).desired_translation_x # 0
    /\ Unwrap(translation)[1] # 0
    /\ Unwrap(translation)[1] # Unwrap(output).desired_translation_x

(* C8: when the previous output's |effective_translation.x| is below
   epsilon and |velocity.x| is above it, the x handed to the controller is
   velocity.x or 0, is not positive after a positive desired_translation.x
   and not negative after a negative one, is velocity.x itself when that
   points away from the blocked side, and the y handed over is velocity.y. *)
C8_WallClamp ==
    [][(/\ ran' = Append(ran, "apply_velocity")
        /\ output # None
        /\ Abs(Unwrap(output).effective_translation_x) < 100
        /\ Abs(velocity[1]) > 100) =>
          LET desired == Unwrap(output).desired_translation_x
              handed == Unwrap(translation')
          IN /\ handed[1] \in {0, velocity[1]}
             /\ (desired > 0 => handed[1] <= 0)
             /\ (desired < 0 => handed[1] >= 0)
             /\ (desired > 0 /\ velocity[1] < 0 => handed[1] = velocity[1])
             /\ (desired < 0 /\ velocity[1] > 0 => handed[1] = velocity[1])
             /\ handed[2] = velocity[2]]_vars

(* pressing right into a wall that blocked the previous move to the right:
   the x handed over is 0 *)
C8_Witness ==
    /\ Last = "apply_velocity"
    /\ output # None
    /\ Unwrap(output).effective_translation_x = 0
    /\ Unwrap(output).desired_translation_x > 0
    /\ horizontal_term(player_movement, dt) > 100
    /\ Unwrap(translation)[1] = 0
    /\ Unwrap(translation)[2] # 0

(* C9, as claimed: in the frame where a jump starts the jump timer is 0,
   speed_fraction() is 1.0 and velocity.y grows by 1.0 * 1100 * dt. *)
C9_JumpStartFullSpeed ==
    [][(/\ ran' = Append(ran, "handle_jump")
        /\ JumpRequestedNow
        /\ GroundedNow) =>
          /\ time_since_start' = 0
          /\ speed_fraction(time_since_start') = 100000
          /\ velocity'[2] - velocity[2] = 100000 * 11 * dt]_vars

(* C9, amended: in the frame where a jump starts the jump timer is 0,
   speed_fraction() is 1 / (1 + e^-3) = 0.95257 and velocity.y grows by
   0.95257 * 1100 * dt. *)
C9_JumpStartSigmoidAtZero ==
    [][(/\ ran' = Append(ran, "handle_jump")
        /\ JumpRequestedNow
        /\ GroundedNow) =>
          /\ time_since_start' = 0
          /\ speed_fraction(time_since_start') = 95257
          /\ velocity'[2] - velocity[2] = 95257 * 11 * dt
          /\ velocity'[1] = velocity[1]]_vars

(* a jump started in a frame of non-zero length, handle_jump being the
   first producer to run *)
C9_Witness ==
    /\ ran = <<"update_grounded", "handle_jump">>
    /\ JumpRequestedNow
    /\ GroundedNow
    /\ dt > 0
    /\ time_since_start = 0
    /\ velocity = <<0, 95257 * 11 * dt>>

(* C10: for sampled jump-timer values lo <= hi, speed_fraction lies in
   [0, 1], is no larger at hi than at lo, is 0 wherever the sigmoid is not
   above 0.001 and the sigmoid itself wherever it is, so it is never inside
   (0, 0.001), and once 0 it is 0 at every later time. *)
C10_SpeedFractionCurve ==
    probe.fn = "speed_fraction" =>
        /\ probe.at_lo >= 0 /\ probe.at_lo <= 100000
        /\ probe.at_hi >= 0 /\ probe.at_hi <= 100000
        /\ probe.at_hi <= probe.at_lo
        /\ (suggestion(probe.lo) <= 100 => probe.at_lo = 0)
        /\ (suggestion(probe.hi) <= 100 => probe.at_hi = 0)
        /\ (suggestion(probe.lo) > 100 => probe.at_lo = suggestion(probe.lo))
        /\ ~(probe.at_lo > 0 /\ probe.at_lo < 100)
        /\ ~(probe.at_hi > 0 /\ probe.at_hi < 100)
        /\ (probe.at_lo = 0 => probe.at_hi = 0)

(* the curve still positive at lo, and at hi a sigmoid value in (0, 0.001)
   that is floored to 0 *)
C10_Witness ==
    /\ probe.fn = "speed_fraction"
    /\ probe.at_lo > 0
    /\ suggestion(probe.hi) > 0
    /\ suggestion(probe.hi) < 100
    /\ probe.at_hi = 0

(* C11, as claimed: for a grounded entity (grounded timer 0) with no input
   in a frame of dt = 0.1 s, velocity.y after the gravity step, the first
   producer to run, is g * 0.1 = -0.981: the gravity of a frame is scaled by
   the frame's delta. *)
C11_GravityScaledByFrameDelta ==
    (/\ ran = <<"update_grounded", "apply_gravity">>
     /\ time_since_last_grounded = 0
     /\ player_movement = None
     /\ dt = 100) =>
        velocity[2] = -981000

(* C14: an NpcSpawner::spawn call with the character scene loaded adds
   exactly three entities: one root, and two children of that root, the
   first a DialogTarget collider and the second a Model scene. *)
C14_NpcRootWithTwoChildren ==
    [][(spawn_log' = Append(spawn_log, "Npc") /\ gltf_loaded) =>
          /\ ~panicked'
          /\ Len(world') = Len(world) + 3
          /\ SubSeq(world', 1, Len(world)) = world
          /\ LET root == Len(world) + 1
                 new == {i \in 1..Len(world') : i > Len(world)}
             IN /\ world'[root].parent = 0
                /\ {i \in new : world'[i].parent = 0} = {root}
                /\ {i \in new : world'[i].parent = root} = {root + 1, root + 2}
                /\ {i \in new : world'[i].kind = "DialogTarget"} = {root + 1}
                /\ {i \in new : world'[i].kind = "Model"} = {root + 2}]_vars

(* an NPC spawned after another object: its root is not entity 1 *)
C14_Witness ==
    /\ Len(spawn_log) >= 2
    /\ spawn_log[Len(spawn_log)] = "Npc"
    /\ ~panicked
    /\ Len(world) > 3
    /\ world[Len(world) - 2].name = "NPC"
    /\ world[Len(world) - 1].parent = Len(world) - 2
    /\ world[Len(world)].parent = Len(world) - 2

(* C15: an NpcSpawner::spawn call without the character scene loaded panics
   and issues no entity-creation command: the world is as it was, with no
   NPC root lacking its children. *)
C15_MissingSceneAbortsCleanly ==
    [][(spawn_log' = Append(spawn_log, "Npc") /\ ~gltf_loaded) =>
          /\ panicked'
          /\ world' = world]_vars

(* the NPC spawner panicked after other objects had been spawned *)
C15_Witness ==
    /\ panicked
    /\ ~gltf_loaded
    /\ world # <<>>
    /\ spawn_log[Len(spawn_log)] = "Npc"
    /\ \A i \in 1..Len(world) : world[i].name # "NPC"

(* C16, as claimed: while the player keeps pressing the same way into a wall
   that stops every move, the x handed to the controller is 0 on every frame
   after the first blocked one. *)
C16_WallClampEveryTick ==
    (/\ Last = "apply_velocity"
     /\ history.wall_ticks >= 1
     /\ pressed(player_movement) = history.wall_dir) =>
        Unwrap(translation)[1] = 0

(* C17: when there is no controller output yet, or the previous output's
   |effective_translation.x| is not below epsilon, or |velocity.x| is not
   above epsilon, apply_velocity hands velocity over as it is, x and y. *)
C17_NoClampOtherwise ==
    [][(/\ ran' = Append(ran, "apply_velocity")
        /\ \/ output = None
           \/ Abs(Unwrap(output).effective_translation_x) >= 100
           \/ Abs(velocity[1]) <= 100) =>
          translation' = Some(velocity)]_vars

(* the previous move to the right went through, the player now pushes left
   while falling: the leftward x is handed over, with the y *)
C17_Witness ==
    /\ Last = "apply_velocity"
    /\ output # None
    /\ Unwrap(output).desired_translation_x > 0
    /\ Unwrap(output).effective_translation_x >= 100
    /\ Unwrap(translation)[1] = horizontal_term(player_movement, dt)
    /\ Unwrap(translation)[1] < -100
    /\ Unwrap(translation)[2] < 0

(* the grounded timer update_grounded leaves, from the frame's start *)
GroundedThisFrame ==
    IF output = None THEN history.start_grounded
    ELSE IF Unwrap(output).grounded THEN 0
    ELSE Timer_update(history.start_grounded, dt)

(* the jump timer handle_jump leaves, from the frame's start *)
JumpThisFrame ==
    IF jump_requested(player_movement) /\ GroundedThisFrame * 100 < 1 THEN 0
    ELSE Timer_update(history.start_jump, dt)

(* C19: whatever the order of apply_gravity, handle_jump and
   handle_horizontal_movement, the frame's result is a function of the state
   at its start and its input: once update_grounded has run the grounded
   timer is fixed for the frame, the jump timer changes only in handle_jump,
   velocity is the sum of the terms of the producers run so far, and the
   translation handed over is the clamp of the sum of all three. *)
C19_ProducerOrderIrrelevant ==
    LET gravity_y == gravity(GroundedThisFrame)
        jump_y == (speed_fraction(JumpThisFrame) * 11) * dt
        move_x == horizontal_term(player_movement, dt)
        sum == <<IF HasRun("handle_horizontal_movement") THEN move_x ELSE 0,
                 (IF HasRun("apply_gravity") THEN gravity_y ELSE 0)
                 + (IF HasRun("handle_jump") THEN jump_y ELSE 0)>>
    IN /\ time_since_last_grounded =
              IF HasRun("update_grounded") THEN GroundedThisFrame
              ELSE history.start_grounded
       /\ time_since_start =
              IF HasRun("handle_jump") THEN JumpThisFrame
              ELSE history.start_jump
       /\ ~HasRun("apply_velocity") => velocity = sum
       /\ HasRun("apply_velocity") =>
              translation = Some(wall_clamp(output, sum))

(* a frame in which all three producers added a non-zero term, the jump
   before the gravity and the horizontal movement before both *)
C19_Witness ==
    /\ ran = <<"update_grounded", "handle_horizontal_movement",
               "handle_jump", "apply_gravity", "apply_velocity">>
    /\ Unwrap(translation)[1] # 0
    /\ speed_fraction(time_since_start) > 0
    /\ dt > 0
    /\ tick >= 2

(* jump is requested in this frame and its controller output reports
   grounded *)
JumpOnGroundedOutput ==
    /\ output # None
    /\ Unwrap(output).grounded
    /\ jump_requested(player_movement)

(* C20, as claimed: until the first frame whose controller output reports
   grounded while jump is requested, the jump timer of a spawned player is
   at the unset sentinel. *)
C20_NoJumpBeforeGroundedOutput ==
    ~(history.jump_on_grounded_output \/ JumpOnGroundedOutput) =>
        time_since_start = 6000

(* jump is requested in this frame and update_grounded has left the grounded
   timer below epsilon *)
JumpOnGroundedTimer ==
    /\ HasRun("update_grounded")
    /\ time_since_last_grounded * 100 < 1
    /\ jump_requested(player_movement)

(* C20, amended: a spawned player has both timers at the unset sentinel;
   until the first frame in which jump is requested while the grounded timer
   is below epsilon, the jump timer stays at the sentinel, speed_fraction is
   0 and the y handed to the controller is the gravity term alone. *)
C20_NoJumpBeforeGroundedTimer ==
    /\ tick = 0 /\ ran = <<>> =>
          time_since_last_grounded = 6000 /\ time_since_start = 6000
    /\ ~(history.jump_on_grounded_timer \/ JumpOnGroundedTimer) =>
          /\ time_since_start = 6000
          /\ speed_fraction(time_since_start) = 0
          /\ Last = "apply_velocity" =>
                Unwrap(translation)[2] = gravity(time_since_last_grounded)

(* jump was requested in several frames since the spawn, in the air every
   time: the jump timer is still unset and only gravity was handed over *)
C20_Witness ==
    /\ tick >= 2
    /\ Last = "apply_velocity"
    /\ jump_requested(player_movement)
    /\ dt > 0
    /\ output # None
    /\ ~history.jump_on_grounded_timer
    /\ time_since_last_grounded >= 100
    /\ time_since_start = 6000
    /\ Unwrap(translation)[2] = gravity(time_since_last_grounded)

(* a step of show_editor with the editor window shown *)
EditorShown ==
    /\ editor_state.active
    /\ "show_editor" \notin editor_ran
    /\ "show_editor" \in editor_ran'

(* C12: a click on Set parent sends a ParentChangeEvent only when the name
   and the parent fields are both non-empty and differ, and then both fields
   are cleared; with an empty field or equal names the click sends nothing
   and leaves the editor state as it was; nothing else in the window sends a
   ParentChangeEvent. *)
C12_SetParentRejectsMalformed ==
    [][EditorShown =>
          LET name == editor_state.parenting_name
              parent == editor_state.parenting_parent_name
          IN IF ui'.click.button = "Set parent"
             THEN IF name # "" /\ parent # "" /\ name # parent
                  THEN /\ parent_changes' =
                              Append(parent_changes,
                                     [name |-> name, new_parent |-> parent])
                       /\ editor_state' =
                              [editor_state EXCEPT
                                  !.parenting_name = "",
                                  !.parenting_parent_name = ""]
                  ELSE /\ parent_changes' = parent_changes
                       /\ editor_state' = editor_state
             ELSE parent_changes' = parent_changes]_vars

(* a click on Set parent sent the reparenting of "a" under "b" and cleared
   both fields *)
C12_Witness ==
    /\ ui.click.button = "Set parent"
    /\ parent_changes = <<[name |-> "a", new_parent |-> "b"]>>
    /\ editor_state.parenting_name = ""
    /\ editor_state.parenting_parent_name = ""

(* C13: the requests sent by relay_spawn_requests are, in order, the editor's
   spawn events sent so far, each once, with the same object, name and parent
   and the default transform; an event not yet relayed is still held by the
   event buffers for the reader. *)
C13_RelayExactlyOnceInOrder ==
    /\ Len(spawn_requests) <= Len(spawn_sent)
    /\ Len(spawn_requests) = last_event_count
    /\ \A i \in 1..Len(spawn_requests) :
          /\ spawn_requests[i].object = spawn_sent[i].object
          /\ spawn_requests[i].name = spawn_sent[i].name
          /\ spawn_requests[i].parent = spawn_sent[i].parent
          /\ spawn_requests[i].transform = "Transform::default"
    /\ \A i \in (Len(spawn_requests) + 1)..Len(spawn_sent) :
          LET held == spawn_events.events_a \o spawn_events.events_b
          IN \E k \in 1..Len(held) :
                /\ held[k].event_id = i - 1
                /\ held[k].event = spawn_sent[i]

(* two different events were relayed, the first of them in the frame after
   the one it was sent in, and a third is waiting *)
C13_Witness ==
    /\ Len(spawn_requests) = 2
    /\ spawn_requests[1] # spawn_requests[2]
    /\ spawn_requests[1].name # None
    /\ Len(spawn_sent) = 3
    /\ editor_ran = EditorSystems

(* C18, as claimed: no spawn event sent by the editor has a name equal to
   its parent. *)
C18_SpawnRejectsSelfParent ==
    \A i \in 1..Len(spawn_sent) :
        spawn_sent[i].name = None \/ spawn_sent[i].name # spawn_sent[i].parent

(* C21: the editor starts inactive without the ActionsFrozen resource; at
   the end of every frame the resource exists exactly when the editor is
   active; handle_toggle flips active in the frames where toggle_editor is
   set, and nothing else changes it; a frame without toggle_editor changes
   neither active nor the resource. *)
C21_FrozenIffEditorActive ==
    [][/\ editor_frame = 0 /\ editor_ran = {} =>
             ~editor_state.active /\ ~actions_frozen
       /\ editor_ran' = {} => (actions_frozen' <=> editor_state'.active)
       /\ editor_state'.active # editor_state.active =>
             /\ toggle_editor
             /\ "handle_toggle" \notin editor_ran
             /\ "handle_toggle" \in editor_ran'
       /\ (/\ toggle_editor
           /\ "handle_toggle" \notin editor_ran
           /\ "handle_toggle" \in editor_ran') =>
             editor_state'.active = ~editor_state.active
       /\ ~toggle_editor => actions_frozen' = actions_frozen]_vars

(* the editor was opened, used to send a spawn event, and closed again: the
   resource is gone *)
C21_Witness ==
    /\ editor_ran = {}
    /\ spawn_sent # <<>>
    /\ ~editor_state.active
    /\ ~actions_frozen

=============================================================================
